---------------------------- MODULE Spec2Model ----------------------------
(***************************************************************************)
(* A model of lesson_plan_generator.py: the markup parser format_text,     *)
(* the row builders add_row / add_section_header, the question numbering   *)
(* ensure_number, the document assembler create_docx with its image step,  *)
(* the content generator generate_lesson_content and the request flow of   *)
(* main.                                                                   *)
(*                                                                         *)
(* A Python string is a sequence of one-character strings.  A literal of   *)
(* a template (a row label, "Within: ", "Activity: ", ...) is kept as one  *)
(* element of such a sequence: every such literal holds no marker and no   *)
(* newline, and never directly follows a marker, so the parser treats it   *)
(* as it treats one ordinary character that is no token character.         *)
(***************************************************************************)
EXTENDS Integers, Sequences, FiniteSets, TLC

VARIABLES
    ft_text,        \* format_text: the text argument
    ft_par,         \* format_text: the paragraph (sequence of runs) it fills
    ft_pc,          \* format_text: "idle" | "call" | "done"
    en_num,         \* ensure_number: the ordinal
    en_text,        \* ensure_number: the question text
    en_once,        \* ensure_number(num, text)
    en_twice,       \* ensure_number(num, ensure_number(num, text))
    en_pc,          \* "idle" | "call" | "once" | "twice"
    table_main,     \* the main content table: a sequence of rows
    calls,          \* the add_row / add_section_header calls made, in order
    ai_data,        \* the GeneratedContent mapping (or None)
    uploaded_image, \* create_docx's uploaded_image argument
    img_data,       \* create_docx's img_data local
    doc,            \* the Document apart from its main table
    file_stream,    \* what create_docx returned (None before it returns)
    fetch_calls,    \* number of calls of fetch_ai_image
    caller,         \* who called create_docx: "main" | "direct" | "none"
    pc,             \* position of main / create_docx
    submit_btn,     \* the form's submit button
    sidebar_key,    \* the API key typed in the sidebar
    secret_key,     \* st.secrets["GOOGLE_API_KEY"], or None
    uploaded_file,  \* the file uploader's value
    response,       \* what the content-generation service answered
    gen_calls,      \* number of calls of the content-generation service
    ui              \* what main showed: messages and the download button

ftVars   == <<ft_text, ft_par, ft_pc>>
enVars   == <<en_num, en_text, en_once, en_twice, en_pc>>
docxVars == <<table_main, ai_data, uploaded_image, img_data, doc,
              file_stream, fetch_calls, caller, pc>>
mainVars == <<submit_btn, sidebar_key, secret_key, uploaded_file, response,
              gen_calls, ui>>
vars     == <<ftVars, enVars, calls, docxVars, mainVars>>

-----------------------------------------------------------------------------
(* Strings *)

Digits == {"0", "1", "2", "3", "4", "5", "6", "7", "8", "9"}

Letters ==
    {"a", "b", "c", "d", "e", "f", "g", "h", "i", "j", "k", "l", "m",
     "n", "o", "p", "q", "r", "s", "t", "u", "v", "w", "x", "y", "z",
     "A", "B", "C", "D", "E", "F", "G", "H", "I", "J", "K", "L", "M",
     "N", "O", "P", "Q", "R", "S", "T", "U", "V", "W", "X", "Y", "Z"}

\* [\^_] of the pattern
IsMarker(c) == c \in {"^", "_"}

\* [0-9a-zA-Z\-] of the pattern
IsTokenChar(c) == c \in Digits \cup Letters \cup {"-"}

\* what str.strip() removes
Whitespace == {" ", "\t", "\n", "\r", "\f"}

\* all strings over alphabet A of length at most n
StringsUpTo(A, n) == UNION {[1..k -> A] : k \in 0..n}

RECURSIVE Concat(_)
\* "".join(parts)
Concat(parts) ==
    IF parts = <<>> THEN <<>> ELSE Head(parts) \o Concat(Tail(parts))

RECURSIVE Join(_, _)
\* sep.join(parts)
Join(sep, parts) ==
    IF parts = <<>> THEN <<>>
    ELSE IF Len(parts) = 1 THEN parts[1]
    ELSE parts[1] \o sep \o Join(sep, Tail(parts))

StartsWith(s, prefix) ==
    /\ Len(prefix) <= Len(s)
    /\ SubSeq(s, 1, Len(prefix)) = prefix

\* str.strip(): leading and trailing whitespace removed
Strip(s) ==
    LET keep == {i \in 1..Len(s) : s[i] \notin Whitespace}
    IN  IF keep = {} THEN <<>>
        ELSE LET lo == CHOOSE i \in keep : \A j \in keep : i <= j
                 hi == CHOOSE i \in keep : \A j \in keep : j <= i
             IN  SubSeq(s, lo, hi)

-----------------------------------------------------------------------------
(* format_text *)

\* a run of a paragraph, as paragraph.add_run(text) creates it
Run(text) == [text |-> text, bold |-> FALSE, script |-> "normal",
              picture |-> FALSE]

BoldRun(text) == [Run(text) EXCEPT !.bold = TRUE]

ScriptRun(text, marker) ==
    [Run(text) EXCEPT !.script = IF marker = "^" THEN "superscript"
                                 ELSE IF marker = "_" THEN "subscript"
                                 ELSE "normal"]

NoMatch == [matched |-> FALSE]

\* re.match(r"([^\^_]*)(([\^_])([0-9a-zA-Z\-]+))(.*)", s).  Group 1 cannot
\* hold a marker, so it ends at the first marker of s or the match fails;
\* group 4 is greedy; "." does not match a newline, so group 5 ends before
\* the first newline after the token.
ReMatch(s) ==
    LET markers == {i \in 1..Len(s) : IsMarker(s[i])}
    IN  IF markers = {} THEN NoMatch
        ELSE
        LET k == CHOOSE i \in markers : \A j \in markers : i <= j
        IN  IF k = Len(s) \/ ~IsTokenChar(s[k + 1]) THEN NoMatch
            ELSE
            LET e == CHOOSE i \in (k + 1)..Len(s) :
                        /\ \A j \in (k + 1)..i : IsTokenChar(s[j])
                        /\ i = Len(s) \/ ~IsTokenChar(s[i + 1])
                r == CHOOSE i \in e..Len(s) :
                        /\ \A j \in (e + 1)..i : s[j] # "\n"
                        /\ i = Len(s) \/ s[i + 1] = "\n"
            IN  [matched |-> TRUE,
                 pre     |-> SubSeq(s, 1, k - 1),
                 marker  |-> s[k],
                 script  |-> SubSeq(s, k + 1, e),
                 rest    |-> SubSeq(s, e + 1, r)]

RECURSIVE FormatLoop(_, _)
\* the while-loop of format_text
FormatLoop(paragraph, current_text) ==
    LET match == ReMatch(current_text)
    IN  IF match.matched
        THEN LET p1 == IF match.pre # <<>>
                       THEN Append(paragraph, Run(match.pre))
                       ELSE paragraph
                 p2 == Append(p1, ScriptRun(match.script, match.marker))
             IN  IF match.rest = <<>> THEN p2
                 ELSE FormatLoop(p2, match.rest)
        ELSE Append(paragraph, Run(current_text))

\* format_text(paragraph, text): the paragraph with the runs appended
format_text(paragraph, text) ==
    IF text = <<>> THEN paragraph
    ELSE IF \A i \in 1..Len(text) : ~IsMarker(text[i])
         THEN Append(paragraph, Run(text))
         ELSE FormatLoop(paragraph, text)


-----------------------------------------------------------------------------
(* Python values *)

NoneVal == [type |-> "NoneType", val |-> <<>>]

StrVal(s) == [type |-> "str", val |-> s]

ListVal(items) == [type |-> "list", val |-> items]

DictVal(m) == [type |-> "dict", val |-> m]

BytesIO(content) == [type |-> "BytesIO", val |-> content]

\* the truth value Python's "if v:" gives: None, "", [] and {} are false,
\* a BytesIO object is always true
Truthy(v) ==
    CASE v.type = "NoneType" -> FALSE
      [] v.type = "str"      -> v.val # <<>>
      [] v.type = "list"     -> v.val # <<>>
      [] v.type = "dict"     -> DOMAIN v.val # {}
      [] OTHER               -> TRUE

\* the mutant of Get: an absent text field reads as "None" (the default is
\* forgotten and None formatted), an absent sub-mapping as the default
GetNoDefault(d, key, default) ==
    IF key \in DOMAIN d THEN d[key]
    ELSE IF key \in {"resources", "procedure", "evaluation"} THEN default
    ELSE <<"None">>

\* d.get(key, default) on a mapping d
Get(d, key, default) ==
    IF key \in DOMAIN d THEN d[key] ELSE default

EmptyDict == [k \in {} |-> <<>>]

-----------------------------------------------------------------------------
(* ensure_number *)

\* f"{num}" for an ordinal 1..5 (one decimal digit)
NumStr(num) == <<ToString(num)>>

\* ensure_number(num, text)
ensure_number(num, text) ==
    LET s_text == Strip(text)
    IN  IF StartsWith(s_text, NumStr(num) \o <<".">>)
        THEN s_text
        ELSE NumStr(num) \o <<".", " ">> \o s_text

-----------------------------------------------------------------------------
(* Tables: a table is a sequence of rows, a row a sequence of cells, a cell *)
(* a record of its paragraphs (each a sequence of runs), its background     *)
(* fill and the number of grid columns it spans.                            *)

EmptyCell == [paragraphs |-> << <<>> >>, fill |-> "none", grid_span |-> 1]

\* the row table.add_row() of python-docx creates at the end of a table of
\* two columns: two empty cells
new_row == <<EmptyCell, EmptyCell>>

\* set_cell_background(cell, color_hex)
set_cell_background(cell, color_hex) == [cell EXCEPT !.fill = color_hex]

\* the mutant of add_row: the new row is filled, but put first
add_row_first(table, label, content, bold_label) ==
    LET row_cells == new_row
        run_lbl == [Run(label) EXCEPT !.bold = bold_label]
        text_content ==
            IF content.type = "list" THEN Join(<<"\n">>, content.val)
            ELSE IF Truthy(content) THEN content.val ELSE <<>>
    IN  << <<[row_cells[1] EXCEPT !.paragraphs[1] = <<run_lbl>>],
             [row_cells[2] EXCEPT !.paragraphs[1] =
                                     format_text(<<>>, text_content)]>> >>
        \o table

\* add_row(table, label, content, bold_label): the table afterwards, the
\* new row at its end with the label and the parsed content written in
add_row(table, label, content, bold_label) ==
    LET row_cells == new_row
        run_lbl == [Run(label) EXCEPT !.bold = bold_label]
        text_content ==
            IF content.type = "list" THEN Join(<<"\n">>, content.val)
            ELSE IF Truthy(content) THEN content.val ELSE <<>>
    IN  Append(table,
            <<[row_cells[1] EXCEPT !.paragraphs[1] = <<run_lbl>>],
              [row_cells[2] EXCEPT !.paragraphs[1] =
                                      format_text(<<>>, text_content)]>>)

\* row.cells[0].merge(row.cells[1]) on a fresh row: one cell spanning both
\* grid columns, holding one empty paragraph
merge_cells(row) == <<[row[1] EXCEPT !.grid_span = 2]>>

\* add_section_header(table, text): the table afterwards, the new row at
\* its end merged into one bold, filled cell
add_section_header(table, text) ==
    LET merged == merge_cells(new_row)
        cell == [merged[1] EXCEPT !.paragraphs = << <<BoldRun(text)>> >>]
    IN  Append(table, <<set_cell_background(cell, "BDD7EE")>>)

\* the text a cell shows: its paragraphs' runs, paragraphs joined by newline
ParagraphText(paragraph) ==
    Concat([i \in 1..Len(paragraph) |-> paragraph[i].text])

CellText(cell) ==
    Join(<<"\n">>, [i \in 1..Len(cell.paragraphs) |->
                        ParagraphText(cell.paragraphs[i])])


-----------------------------------------------------------------------------
(* fetch_ai_image *)

\* re.sub(r'[\n\r\t]', ' ', str(keywords)), then
\* re.sub(r'[^a-zA-Z0-9 ]', '', ...).strip()
clean_prompt(keywords) ==
    LET spaced == [i \in 1..Len(keywords) |->
                      IF keywords[i] \in {"\n", "\r", "\t"} THEN " "
                      ELSE keywords[i]]
    IN  Strip(SelectSeq(spaced,
                        LAMBDA c : c \in Letters \cup Digits \cup {" "}))

\* urllib.parse.quote on a string of letters, digits and spaces
quote(s) == [i \in 1..Len(s) |-> IF s[i] = " " THEN "%20" ELSE s[i]]

\* the f-string of the url: the prefix is written in the source as a
\* markdown link, so the url starts with "[" and not with its scheme
fetch_url(encoded_prompt, seed) ==
    <<"[", "https://", "image.pollinations.ai/prompt/", "]",
      "(", "https://", "image.pollinations.ai/prompt/", ")">>
    \o encoded_prompt
    \o <<"?width=600&height=350&nologo=true&seed=", ToString(seed)>>

\* what requests.get(url, timeout=10) can do: a url that does not start with
\* http:// or https:// has no connection adapter and raises InvalidSchema
\* before anything is sent; otherwise the service decides
requests_get(url) ==
    IF url # <<>> /\ url[1] \in {"http://", "https://"}
    THEN {"200 image", "200 not an image", "status not 200",
          "connection error", "timeout"}
    ELSE {"invalid schema"}

\* what fetch_ai_image returns for an outcome of requests.get
fetch_result(outcome) ==
    IF outcome = "200 image" THEN BytesIO(<<"image">>)
    ELSE IF outcome = "200 not an image" THEN BytesIO(<<"not an image">>)
    ELSE NoneVal

\* the values fetch_ai_image(keywords) can return
fetch_ai_image(keywords, seed) ==
    LET kw == IF keywords = <<>>
              THEN <<"s", "c", "h", "o", "o", "l", "_",
                     "c", "l", "a", "s", "s", "r", "o", "o", "m">>
              ELSE keywords
        url == fetch_url(quote(clean_prompt(kw)), seed)
    IN  {fetch_result(outcome) : outcome \in requests_get(url)}

-----------------------------------------------------------------------------
(* create_docx *)

PageWidthMm == 210
PageHeightMm == 297
MarginTenthsOfInch == 5

\* the mutant of embed_image: no try/except around the insertion
embed_image_unguarded(cell_img, data) ==
    IF Truthy(data)
    THEN IF data.val = <<"image">>
         THEN [raised |-> FALSE,
               cell |-> [cell_img EXCEPT !.paragraphs =
                   Append(@, <<[Run(<<>>) EXCEPT !.picture = TRUE]>>)]]
         ELSE [raised |-> TRUE,
               cell |-> [cell_img EXCEPT !.paragraphs =
                   Append(@, <<Run(<<>>)>>)]]
    ELSE [raised |-> FALSE,
          cell |-> [cell_img EXCEPT !.paragraphs =
              Append(@, <<Run(<<"[No Image Available]">>)>>)]]

\* "if img_data: try: ... add_picture ... except: [Image Error]
\*  else: [No Image Available]": the cell afterwards, and whether an
\* exception left the block.  add_picture raises on bytes that are no image,
\* after the paragraph and its empty run were added.
embed_image(cell_img, data) ==
    IF Truthy(data)
    THEN IF data.val = <<"image">>
         THEN [raised |-> FALSE,
               cell |-> [cell_img EXCEPT !.paragraphs =
                   Append(@, <<[Run(<<>>) EXCEPT !.picture = TRUE]>>)]]
         ELSE [raised |-> FALSE,
               cell |-> [cell_img EXCEPT !.paragraphs =
                   Append(Append(@, <<Run(<<>>)>>),
                          <<Run(<<"[Image Error]">>)>>)]]
    ELSE [raised |-> FALSE,
          cell |-> [cell_img EXCEPT !.paragraphs =
              Append(@, <<Run(<<"[No Image Available]">>)>>)]]

\* fill_cell(idx, label, value) of the top table: the cell afterwards
fill_cell(label, value) ==
    [EmptyCell EXCEPT !.paragraphs[1] =
        format_text(<<BoldRun(label), Run(<<"\n">>)>>, value)]

\* the page setup, the title and the top info table
DocBegin(inputs) ==
    [type           |-> "Document",
     page_width_mm  |-> PageWidthMm,
     page_height_mm |-> PageHeightMm,
     margins        |-> [side \in {"top", "bottom", "left", "right"} |->
                            MarginTenthsOfInch],
     title          |-> <<BoldRun(<<"Daily Lesson Plan (DLP) Template">>)>>,
     table_top      |-> << <<fill_cell(<<"Subject Area:">>, inputs.subject),
                             fill_cell(<<"Grade Level:">>, inputs.grade),
                             fill_cell(<<"Quarter:">>, inputs.quarter),
                             fill_cell(<<"Date:">>, <<"date.today()">>)>> >>,
     sig_table      |-> <<>>]

\* the signatory table
SigTable(teacher_name, principal_name) ==
    LET TextCell(run) == [EmptyCell EXCEPT !.paragraphs = << <<run>> >>]
    IN  << <<TextCell(Run(<<"Prepared by:">>)),
             TextCell(Run(<<"Noted by:">>))>>,
           <<TextCell(BoldRun(<<"\n\n">> \o teacher_name
                                  \o <<"\nTeacher">>)),
             TextCell(BoldRun(<<"\n\n">> \o principal_name
                                  \o <<"\nPrincipal">>))>> >>

\* the main table from its creation to the image row's text
MainTableBegin(inputs, d) ==
    LET objs == <<"1", ".", " ">> \o Get(d, "obj_1", <<>>)
                \o <<"\n", "2", ".", " ">> \o Get(d, "obj_2", <<>>)
                \o <<"\n", "3", ".", " ">> \o Get(d, "obj_3", <<>>)
        r == Get(d, "resources", EmptyDict)
        proc == Get(d, "procedure", EmptyDict)
        t1 == add_section_header(<<>>,
                <<"I. CURRICULUM CONTENT, STANDARD AND LESSON COMPETENCIES">>)
        t2 == add_row(t1, <<"A. Content Standard">>,
                      StrVal(inputs.content_std), TRUE)
        t3 == add_row(t2, <<"B. Performance Standard">>,
                      StrVal(inputs.perf_std), TRUE)
        t4 == Append(t3,
                <<[new_row[1] EXCEPT !.paragraphs[1] =
                      <<BoldRun(<<"C. Learning Competencies">>)>>],
                  [new_row[2] EXCEPT !.paragraphs[1] =
                      format_text(<<BoldRun(<<"Competency: ">>)>>,
                                  inputs.competency)
                      \o <<BoldRun(<<"\n\nObjectives:\n">>), Run(objs)>>]>>)
        t5 == add_row(t4, <<"D. Content">>, StrVal(Get(d, "topic", <<>>)),
                      TRUE)
        t6 == add_row(t5, <<"E. Integration">>,
                StrVal(<<"Within: ">> \o Get(d, "integration_within", <<>>)
                       \o <<"\n", "Across: ">>
                       \o Get(d, "integration_across", <<>>)), TRUE)
        t7 == add_section_header(t6, <<"II. LEARNING RESOURCES">>)
        t8 == add_row(t7, <<"Teacher Guide">>,
                      StrVal(Get(r, "guide", <<>>)), TRUE)
        t9 == add_row(t8, <<"Learner's Materials(LMs)">>,
                      StrVal(Get(r, "materials", <<>>)), TRUE)
        t10 == add_row(t9, <<"Textbooks">>,
                       StrVal(Get(r, "textbook", <<>>)), TRUE)
        t11 == add_row(t10, <<"Learning Resource (LR) Portal">>,
                       StrVal(Get(r, "portal", <<>>)), TRUE)
        t12 == add_row(t11, <<"Other Learning Resources">>,
                       StrVal(Get(r, "other", <<>>)), TRUE)
        t13 == add_section_header(t12,
                 <<"III. TEACHING AND LEARNING PROCEDURE">>)
        t14 == add_row(t13, <<"A. Activating Prior Knowledge">>,
                       StrVal(Get(proc, "review", <<>>)), TRUE)
    IN  Append(t14,
          <<[new_row[1] EXCEPT !.paragraphs[1] =
                <<BoldRun(<<"B. Establishing Lesson Purpose">>)>>],
            [new_row[2] EXCEPT !.paragraphs[1] =
                Append(format_text(<<>>, Get(proc, "purpose_situation", <<>>)),
                       Run(<<"\n">>))]>>)

\* the image row's cell after the image block and the vocabulary paragraph
ImageCellFinish(cell, d) ==
    LET proc == Get(d, "procedure", EmptyDict)
    IN  [cell EXCEPT !.paragraphs =
            Append(@, <<Run(<<"\nVocabulary:\n">>
                            \o Get(proc, "vocabulary", <<>>))>>)]

\* the main table from the row after the image row to its last row
MainTableFinish(table, d) ==
    LET proc == Get(d, "procedure", EmptyDict)
        eval_sec == Get(d, "evaluation", EmptyDict)
        t1 == add_row(table, <<"C. Developing Understanding">>,
                StrVal(<<"Activity: ">> \o Get(proc, "activity_main", <<>>)
                       \o <<"\n", "\n", "Explicitation: ">>
                       \o Get(proc, "explicitation", <<>>)
                       \o <<"\n", "\n", "Group 1: ">>
                       \o Get(proc, "group_1", <<>>)
                       \o <<"\n", "Group 2: ">> \o Get(proc, "group_2", <<>>)
                       \o <<"\n", "Group 3: ">> \o Get(proc, "group_3", <<>>)),
                TRUE)
        t2 == add_row(t1, <<"D. Making Generalization">>,
                      StrVal(Get(proc, "generalization", <<>>)), TRUE)
        t3 == add_section_header(t2, <<"IV. EVALUATING LEARNING">>)
        q == [n \in 1..5 |->
                Get(eval_sec,
                    <<"assess_q1", "assess_q2", "assess_q3", "assess_q4",
                      "assess_q5">>[n],
                    <<<<"Question 1">>, <<"Question 2">>, <<"Question 3">>,
                      <<"Question 4">>, <<"Question 5">>>>[n])]
        assessment_list == [n \in 1..5 |-> ensure_number(n, q[n])]
        t4 == add_row(t3, <<"A. Assessment">>, ListVal(assessment_list), TRUE)
        t5 == add_row(t4, <<"B. Assignment">>,
                      StrVal(Get(eval_sec, "assignment", <<>>)), TRUE)
        t6 == add_row(t5, <<"C. Remarks">>,
                      StrVal(Get(eval_sec, "remarks", <<>>)), TRUE)
    IN  add_row(t6, <<"D. Reflection">>,
                StrVal(Get(eval_sec, "reflection", <<>>)), TRUE)


-----------------------------------------------------------------------------
(* generate_lesson_content *)

\* the markdown code fence: three backquotes
Fence == "<fence>"

RECURSIVE ReplaceJsonFence(_)
\* text.replace(fence + "json", ""): a text is a sequence of tokens: the
\* fence of three backquotes, the word "json", a newline, or a token
\* standing for one document
ReplaceJsonFence(text) ==
    IF text = <<>> THEN <<>>
    ELSE IF Len(text) >= 2 /\ text[1] = Fence /\ text[2] = "json"
         THEN ReplaceJsonFence(SubSeq(text, 3, Len(text)))
         ELSE <<text[1]>> \o ReplaceJsonFence(Tail(text))

\* if fence + "json" is in the text, every fence + "json" and then every
\* remaining fence is removed; otherwise the text is left as it is
clean_markdown(text) ==
    IF \E i \in 1..(Len(text) - 1) : text[i] = Fence /\ text[i + 1] = "json"
    THEN SelectSeq(ReplaceJsonFence(text), LAMBDA c : c # Fence)
    ELSE text

TopKeys == {"obj_1", "obj_2", "obj_3", "topic", "integration_within",
            "integration_across"}
SubMappings == {"resources", "procedure", "evaluation"}
ResourceKeys == {"guide", "materials", "textbook", "portal", "other"}
ProcedureKeys == {"review", "purpose_situation", "visual_prompt",
                  "vocabulary", "activity_main", "explicitation", "group_1",
                  "group_2", "group_3", "generalization"}
QuestionKeys == {"assess_q1", "assess_q2", "assess_q3", "assess_q4",
                 "assess_q5"}
EvaluationKeys == QuestionKeys \cup {"assignment", "remarks", "reflection"}
AllKeys == TopKeys \cup SubMappings \cup ResourceKeys \cup ProcedureKeys
           \cup EvaluationKeys

\* the GeneratedContent mapping that lacks the keys of absent and holds
\* value[k] under every other key k
Content(absent, value) ==
    [k \in (TopKeys \cup SubMappings) \ absent |->
        CASE k = "resources"  -> [j \in ResourceKeys \ absent |-> value[j]]
          [] k = "procedure"  -> [j \in ProcedureKeys \ absent |-> value[j]]
          [] k = "evaluation" -> [j \in EvaluationKeys \ absent |-> value[j]]
          [] OTHER            -> value[k]]

SomeValue == [k \in AllKeys |-> <<"v">>]

\* the documents a response can hold: a full mapping, a mapping with the
\* topic alone, and the empty mapping
JsonDocuments ==
    [name \in {"{full}", "{topic}", "{}"} |->
        CASE name = "{full}"  -> Content({}, SomeValue)
          [] name = "{topic}" -> Content(AllKeys \ {"topic"}, SomeValue)
          [] OTHER            -> EmptyDict]

\* json.loads(text): whitespace around the one document is allowed, anything
\* else raises
json_loads(text) ==
    LET body == SelectSeq(text, LAMBDA c : c \notin Whitespace)
    IN  IF Len(body) = 1 /\ body[1] \in DOMAIN JsonDocuments
        THEN [ok |-> TRUE, value |-> DictVal(JsonDocuments[body[1]])]
        ELSE [ok |-> FALSE, value |-> NoneVal]

\* what generate_lesson_content returns when the service answered outcome:
\* an exception of the call or of json.loads is caught and None returned
generate_lesson_content(outcome) ==
    IF outcome.type = "raise" THEN NoneVal
    ELSE json_loads(clean_markdown(outcome.text)).value


-----------------------------------------------------------------------------
(* Bounds and inputs *)

MaxLen == 4         \* longest text given to format_text
MaxQLen == 3        \* longest question text given to ensure_number
MaxCalls == 3       \* most add_row / add_section_header calls on one table
MaxAbsent == 2      \* most keys taken out of (or left in) a mapping
MaxRespLen == 4     \* most tokens of a response of the service

FormatAlphabet == {"x", "2", "^", "_", " ", "\n"}

\* the example of the specification, "E=mc^2 and H_2O"
Example == <<"E", "=", "m", "c", "^", "2", " ", "a", "n", "d", " ",
             "H", "_", "2", "O">>

FormatInputs == StringsUpTo(FormatAlphabet, MaxLen) \cup {Example}

QuestionAlphabet == {"1", "2", ".", " ", "x"}

RowLabels == {<<"A">>, <<"B">>}

RowContents == {NoneVal, StrVal(<<>>), StrVal(<<"x", "^", "2">>),
                ListVal(<<<<"x">>, <<"y", "_", "2">>>>)}

RECURSIVE SetsUpTo(_, _)
\* the subsets of S of at most n elements
SetsUpTo(S, n) ==
    IF n = 0 THEN {{}}
    ELSE LET smaller == SetsUpTo(S, n - 1)
         IN  smaller \cup {a \cup {k} : a \in smaller, k \in S}

\* question texts: plain, and with a marker
QuestionTexts == {<<"x">>, <<"x", "^", "2">>}

\* mappings with at most MaxAbsent keys absent, or at most MaxAbsent present
SparseContents ==
    {Content(a, SomeValue) : a \in SetsUpTo(AllKeys, MaxAbsent)}
    \cup {Content(AllKeys \ a, SomeValue) : a \in SetsUpTo(AllKeys, MaxAbsent)}

\* mappings with every combination of the five questions: absent, plain,
\* with a marker
QuestionContents ==
    {Content(a, [k \in AllKeys |-> IF k \in QuestionKeys THEN qv[k]
                                   ELSE <<"v">>]) :
        a \in SUBSET QuestionKeys, qv \in [QuestionKeys -> QuestionTexts]}

ResponseTokens == {Fence, "json", "\n", "{full}", "{}", "oops"}

ServiceOutcomes ==
    {[type |-> "raise", text |-> <<>>]}
    \cup {[type |-> "text", text |-> t] :
             t \in StringsUpTo(ResponseTokens, MaxRespLen)}

\* the form's values (the defaults of the form)
FormInputs ==
    [subject     |-> <<"Mathematics">>,
     grade       |-> <<"Grade 1">>,
     quarter     |-> <<"1st Quarter">>,
     content_std |-> <<"The learner demonstrates understanding of...">>,
     perf_std    |-> <<"The learner is able to...">>,
     competency  |-> <<"Solves problems involving...">>]

TeacherName == <<"JUAN DELA CRUZ">>
PrincipalName == <<"MARIA SANTOS">>

\* the images a user can upload: a readable one and an unreadable one
Images == {BytesIO(<<"image">>), BytesIO(<<"not an image">>)}

-----------------------------------------------------------------------------
(* Idle values of the parts a specification does not use *)

IdleFormat == ft_text = <<>> /\ ft_par = <<>> /\ ft_pc = "idle"

IdleNumber ==
    /\ en_num = 0 /\ en_text = <<>> /\ en_once = <<>> /\ en_twice = <<>>
    /\ en_pc = "idle"

IdleDocx ==
    /\ table_main = <<>> /\ ai_data = NoneVal /\ uploaded_image = NoneVal
    /\ img_data = NoneVal /\ doc = NoneVal /\ file_stream = NoneVal
    /\ fetch_calls = 0 /\ caller = "none" /\ pc = "idle"

IdleMain ==
    /\ submit_btn = FALSE /\ sidebar_key = <<>> /\ secret_key = NoneVal
    /\ uploaded_file = NoneVal /\ response = NoneVal /\ gen_calls = 0
    /\ ui = [messages |-> <<>>, download |-> NoneVal]

-----------------------------------------------------------------------------
(* format_text applied to every input *)

InitFormat ==
    /\ ft_text \in FormatInputs /\ ft_par = <<>> /\ ft_pc = "call"
    /\ IdleNumber /\ calls = <<>> /\ IdleDocx /\ IdleMain

FormatCall ==
    /\ ft_pc = "call"
    /\ ft_par' = format_text(ft_par, ft_text)
    /\ ft_pc' = "done"
    /\ UNCHANGED <<ft_text, enVars, calls, docxVars, mainVars>>

SpecFormat == InitFormat /\ [][FormatCall]_vars

-----------------------------------------------------------------------------
(* ensure_number applied twice *)

InitNumber ==
    /\ en_num \in 1..5
    /\ en_text \in StringsUpTo(QuestionAlphabet, MaxQLen)
    /\ en_once = <<>> /\ en_twice = <<>> /\ en_pc = "call"
    /\ IdleFormat /\ calls = <<>> /\ IdleDocx /\ IdleMain

NumberOnce ==
    /\ en_pc = "call"
    /\ en_once' = ensure_number(en_num, en_text)
    /\ en_pc' = "once"
    /\ UNCHANGED <<en_num, en_text, en_twice, ftVars, calls, docxVars,
                   mainVars>>

NumberAgain ==
    /\ en_pc = "once"
    /\ en_twice' = ensure_number(en_num, en_once)
    /\ en_pc' = "twice"
    /\ UNCHANGED <<en_num, en_text, en_once, ftVars, calls, docxVars,
                   mainVars>>

NextNumber == NumberOnce \/ NumberAgain

SpecNumber == InitNumber /\ [][NextNumber]_vars

-----------------------------------------------------------------------------
(* add_row and add_section_header called in any order on an empty table *)

InitTable ==
    /\ calls = <<>> /\ IdleDocx /\ IdleFormat /\ IdleNumber /\ IdleMain

CallAddRow ==
    /\ Len(calls) < MaxCalls
    /\ \E label \in RowLabels, content \in RowContents,
          bold_label \in BOOLEAN :
          /\ table_main' = add_row(table_main, label, content, bold_label)
          /\ calls' = Append(calls, [f |-> "add_row", label |-> label,
                                     bold_label |-> bold_label])
    /\ UNCHANGED <<ai_data, uploaded_image, img_data, doc, file_stream,
                   fetch_calls, caller, pc, ftVars, enVars, mainVars>>

CallAddSectionHeader ==
    /\ Len(calls) < MaxCalls
    /\ \E text \in RowLabels :
          /\ table_main' = add_section_header(table_main, text)
          /\ calls' = Append(calls, [f |-> "add_section_header",
                                     label |-> text, bold_label |-> TRUE])
    /\ UNCHANGED <<ai_data, uploaded_image, img_data, doc, file_stream,
                   fetch_calls, caller, pc, ftVars, enVars, mainVars>>

NextTable == CallAddRow \/ CallAddSectionHeader

SpecTable == InitTable /\ [][NextTable]_vars


-----------------------------------------------------------------------------
(* create_docx, step by step *)

\* from the page setup to the text of the image row
DocxBegin ==
    /\ pc = "docx_begin"
    /\ doc' = DocBegin(FormInputs)
    /\ table_main' = MainTableBegin(FormInputs, ai_data.val)
    /\ pc' = "docx_image"
    /\ UNCHANGED <<ai_data, uploaded_image, img_data, file_stream,
                   fetch_calls, caller, ftVars, enVars, calls, mainVars>>

\* the mutant of DocxAcquireImage: the image service is asked even when an
\* image was uploaded
DocxAcquireImageAlways ==
    /\ pc = "docx_image"
    /\ \E seed \in {1, 9999} :
          img_data' \in fetch_ai_image(
              Get(Get(ai_data.val, "procedure", EmptyDict), "visual_prompt",
                  <<"s", "c", "h", "o", "o", "l">>), seed)
    /\ fetch_calls' = fetch_calls + 1
    /\ pc' = "docx_embed"
    /\ UNCHANGED <<table_main, ai_data, uploaded_image, doc, file_stream,
                   caller, ftVars, enVars, calls, mainVars>>

\* img_data: the uploaded image if there is one, else fetch_ai_image
DocxAcquireImage ==
    /\ pc = "docx_image"
    /\ IF Truthy(uploaded_image)
       THEN /\ img_data' = uploaded_image
            /\ UNCHANGED fetch_calls
       ELSE /\ \E seed \in {1, 9999} :
                  img_data' \in fetch_ai_image(
                      Get(Get(ai_data.val, "procedure", EmptyDict),
                          "visual_prompt",
                          <<"s", "c", "h", "o", "o", "l">>), seed)
            /\ fetch_calls' = fetch_calls + 1
    /\ pc' = "docx_embed"
    /\ UNCHANGED <<table_main, ai_data, uploaded_image, doc, file_stream,
                   caller, ftVars, enVars, calls, mainVars>>

\* the picture or its placeholder, then the vocabulary paragraph; an
\* exception leaving the image block ends create_docx
DocxEmbedImage ==
    /\ pc = "docx_embed"
    /\ LET n == Len(table_main)
           embedded == embed_image(table_main[n][2], img_data)
       IN  IF embedded.raised
           THEN /\ table_main' = [table_main EXCEPT ![n][2] = embedded.cell]
                /\ pc' = "docx_raised"
           ELSE /\ table_main' = [table_main EXCEPT ![n][2] =
                                   ImageCellFinish(embedded.cell, ai_data.val)]
                /\ pc' = "docx_rest"
    /\ UNCHANGED <<ai_data, uploaded_image, img_data, doc, file_stream,
                   fetch_calls, caller, ftVars, enVars, calls, mainVars>>

\* the rest of the main table, the signatory table, the saved stream
DocxFinish ==
    /\ pc = "docx_rest"
    /\ table_main' = MainTableFinish(table_main, ai_data.val)
    /\ doc' = [doc EXCEPT !.sig_table = SigTable(TeacherName, PrincipalName)]
    /\ file_stream' = BytesIO(<<"docx">>)
    /\ pc' = "docx_done"
    /\ UNCHANGED <<ai_data, uploaded_image, img_data, fetch_calls, caller,
                   ftVars, enVars, calls, mainVars>>

NextDocx == DocxBegin \/ DocxAcquireImage \/ DocxEmbedImage \/ DocxFinish

\* create_docx called directly with any mapping and any image
InitDocx ==
    /\ ai_data \in {DictVal(m) : m \in SparseContents \cup QuestionContents}
    /\ uploaded_image \in {NoneVal} \cup Images
    /\ table_main = <<>> /\ img_data = NoneVal /\ doc = NoneVal
    /\ file_stream = NoneVal /\ fetch_calls = 0
    /\ caller = "direct" /\ pc = "docx_begin"
    /\ IdleFormat /\ IdleNumber /\ calls = <<>> /\ IdleMain

SpecDocx == InitDocx /\ [][NextDocx]_vars

-----------------------------------------------------------------------------
(* main: one run of the script *)

\* the key typed in the sidebar, else the secret, else nothing
ApiKey ==
    IF sidebar_key # <<>> THEN sidebar_key
    ELSE IF secret_key.type = "str" THEN secret_key.val
    ELSE <<>>

Show(message) == [ui EXCEPT !.messages = Append(@, message)]

\* the sidebar, the form, and "if submit_btn and api_key"
MainRun ==
    /\ pc = "main"
    /\ ui' = IF sidebar_key = <<>> /\ secret_key.type = "NoneType"
             THEN Show("Please enter your API Key or set it in Secrets.")
             ELSE ui
    /\ pc' = IF submit_btn /\ ApiKey # <<>> THEN "generate" ELSE "main_end"
    /\ UNCHANGED <<table_main, ai_data, uploaded_image, img_data, doc,
                   file_stream, fetch_calls, caller, submit_btn, sidebar_key,
                   secret_key, uploaded_file, response, gen_calls, ftVars,
                   enVars, calls>>

\* ai_data = generate_lesson_content(...): one call of the service
GenerateContent ==
    /\ pc = "generate"
    /\ \E outcome \in ServiceOutcomes :
          /\ response' = outcome
          /\ ai_data' = generate_lesson_content(outcome)
          /\ ui' = IF outcome.type = "raise"
                      \/ ~json_loads(clean_markdown(outcome.text)).ok
                   THEN Show("AI Error") ELSE ui
    /\ gen_calls' = gen_calls + 1
    /\ pc' = "branch"
    /\ UNCHANGED <<table_main, uploaded_image, img_data, doc, file_stream,
                   fetch_calls, caller, submit_btn, sidebar_key, secret_key,
                   uploaded_file, ftVars, enVars, calls>>

\* "if ai_data:" and the conversion of the uploaded file, or the error
MainBranch ==
    /\ pc = "branch"
    /\ IF Truthy(ai_data)
       THEN /\ ui' = Show("Content Generated! Creating Word Document...")
            /\ uploaded_image' = IF uploaded_file.type # "NoneType"
                                 THEN BytesIO(uploaded_file.val)
                                 ELSE NoneVal
            /\ caller' = "main"
            /\ pc' = "docx_begin"
       ELSE /\ ui' = Show("Failed to generate content. Please try again.")
            /\ pc' = "main_end"
            /\ UNCHANGED <<uploaded_image, caller>>
    /\ UNCHANGED <<table_main, ai_data, img_data, doc, file_stream,
                   fetch_calls, submit_btn, sidebar_key, secret_key,
                   uploaded_file, response, gen_calls, ftVars, enVars, calls>>

\* st.download_button(data=docx_file, ...)
MainDownload ==
    /\ pc = "docx_done" /\ caller = "main"
    /\ ui' = [ui EXCEPT !.download = file_stream]
    /\ pc' = "main_end"
    /\ UNCHANGED <<table_main, ai_data, uploaded_image, img_data, doc,
                   file_stream, fetch_calls, caller, submit_btn, sidebar_key,
                   secret_key, uploaded_file, response, gen_calls, ftVars,
                   enVars, calls>>

Init ==
    /\ submit_btn \in BOOLEAN
    /\ sidebar_key \in {<<>>, <<"k">>}
    /\ secret_key \in {NoneVal, StrVal(<<"s">>)}
    /\ uploaded_file \in {NoneVal, [type |-> "UploadedFile", val |-> <<"image">>],
                          [type |-> "UploadedFile", val |-> <<"not an image">>]}
    /\ response = NoneVal /\ gen_calls = 0
    /\ ui = [messages |-> <<>>, download |-> NoneVal]
    /\ table_main = <<>> /\ ai_data = NoneVal /\ uploaded_image = NoneVal
    /\ img_data = NoneVal /\ doc = NoneVal /\ file_stream = NoneVal
    /\ fetch_calls = 0 /\ caller = "none" /\ pc = "main"
    /\ IdleFormat /\ IdleNumber /\ calls = <<>>

Next ==
    \/ MainRun \/ GenerateContent \/ MainBranch \/ MainDownload
    \/ DocxBegin \/ DocxAcquireImage \/ DocxEmbedImage \/ DocxFinish

Spec == Init /\ [][Next]_vars


-----------------------------------------------------------------------------
(* Claims about format_text (SpecFormat) *)

\* s without the characters at the positions of D
Without(s, D) ==
    LET F[i \in 0..Len(s)] ==
            IF i = 0 THEN <<>>
            ELSE IF i \in D THEN F[i - 1] ELSE Append(F[i - 1], s[i])
    IN  F[Len(s)]

\* the markers of s immediately followed by a token character
RecognisedMarkers(s) ==
    {i \in 1..(Len(s) - 1) : IsMarker(s[i]) /\ IsTokenChar(s[i + 1])}

\* the longest run of token characters of s that starts at position j
TokenAt(s, j) ==
    LET e == CHOOSE i \in j..Len(s) :
                /\ \A h \in j..i : IsTokenChar(s[h])
                /\ i = Len(s) \/ ~IsTokenChar(s[i + 1])
    IN  SubSeq(s, j, e)

\* the script spans the claim asks for, in order
ExpectedScripts(s) ==
    LET F[i \in 0..Len(s)] ==
            IF i = 0 THEN <<>>
            ELSE IF i \in RecognisedMarkers(s)
                 THEN Append(F[i - 1], ScriptRun(TokenAt(s, i + 1), s[i]))
                 ELSE F[i - 1]
    IN  F[Len(s)]

\* C1: the texts of the runs format_text emits, concatenated in order, are
\* the input with the marker characters of recognised markers removed: no
\* other character is dropped, duplicated or reordered, newlines included.
\* (Stated for any choice of the recognised markers that were removed.)
C1_TextPreserved ==
    ft_pc = "done" =>
        \E D \in SUBSET RecognisedMarkers(ft_text) :
            ParagraphText(ft_par) = Without(ft_text, D)

\* C2: format_text emits a script span for exactly the markers immediately
\* followed by a token character, each holding the maximal token and tagged
\* by its marker, also after a marker that is not followed by a token; and
\* "E=mc^2 and H_2O" gives "E=mc", sup "2", " and H", sub "2", "O".
C2_MarkersConverted ==
    ft_pc = "done" =>
        /\ SelectSeq(ft_par, LAMBDA r : r.script # "normal")
              = ExpectedScripts(ft_text)
        /\ ft_text = Example =>
              ft_par = <<Run(<<"E", "=", "m", "c">>), ScriptRun(<<"2">>, "^"),
                         Run(<<" ", "a", "n", "d", " ", "H">>),
                         ScriptRun(<<"2">>, "_"), Run(<<"O">>)>>

-----------------------------------------------------------------------------
(* Claims about ensure_number (SpecNumber) *)

\* C3: numbering is idempotent: for every ordinal 1..5 and every text, also
\* the empty and the whitespace-only text, numbering the numbered text again
\* gives the numbered text.
C3_Idempotent == en_pc = "twice" => en_twice = en_once

-----------------------------------------------------------------------------
(* Claims about add_row and add_section_header (SpecTable) *)

\* row is the row the call describes: one merged cell spanning both columns
\* for a header, two separate cells for a content row
RowOfCall(row, call) ==
    IF call.f = "add_section_header"
    THEN /\ Len(row) = 1
         /\ row[1].grid_span = 2
         /\ CellText(row[1]) = call.label
    ELSE /\ Len(row) = 2
         /\ row[1].grid_span = 1 /\ row[2].grid_span = 1
         /\ row[1].paragraphs = << <<[Run(call.label) EXCEPT
                                        !.bold = call.bold_label]>> >>

\* C7: the main table is append-only: every add_row / add_section_header
\* call appends exactly one row at the end and leaves the earlier rows as
\* they were, so after N calls the table holds N rows in call order, a
\* header row being one merged cell and a content row two cells.
C7_AppendOnly ==
    /\ [](/\ Len(table_main) = Len(calls)
          /\ \A i \in 1..Len(calls) : RowOfCall(table_main[i], calls[i]))
    /\ [][/\ Len(table_main') = Len(table_main) + 1
          /\ SubSeq(table_main', 1, Len(table_main)) = table_main]_vars

\* three calls of both kinds were made
C7_Witness ==
    /\ Len(calls) = 3
    /\ calls[1].f = "add_section_header"
    /\ calls[2].f = "add_row"
    /\ calls[3].f = "add_section_header"
    /\ Len(table_main) = 3


-----------------------------------------------------------------------------
(* Claims about create_docx (SpecDocx) *)

\* the rows of the template: kind and label, in order
FixedLayout ==
    <<<<"header", "I. CURRICULUM CONTENT, STANDARD AND LESSON COMPETENCIES">>,
      <<"row", "A. Content Standard">>,
      <<"row", "B. Performance Standard">>,
      <<"row", "C. Learning Competencies">>,
      <<"row", "D. Content">>,
      <<"row", "E. Integration">>,
      <<"header", "II. LEARNING RESOURCES">>,
      <<"row", "Teacher Guide">>,
      <<"row", "Learner's Materials(LMs)">>,
      <<"row", "Textbooks">>,
      <<"row", "Learning Resource (LR) Portal">>,
      <<"row", "Other Learning Resources">>,
      <<"header", "III. TEACHING AND LEARNING PROCEDURE">>,
      <<"row", "A. Activating Prior Knowledge">>,
      <<"row", "B. Establishing Lesson Purpose">>,
      <<"row", "C. Developing Understanding">>,
      <<"row", "D. Making Generalization">>,
      <<"header", "IV. EVALUATING LEARNING">>,
      <<"row", "A. Assessment">>,
      <<"row", "B. Assignment">>,
      <<"row", "C. Remarks">>,
      <<"row", "D. Reflection">>>>

\* kind and label of every row of a table
LayoutOf(table) ==
    [i \in 1..Len(table) |->
        <<IF Len(table[i]) = 1 /\ table[i][1].grid_span = 2
          THEN "header" ELSE "row",
          CellText(table[i][1])[1]>>]

\* what an absent field is to be rendered as
DefaultOf(k) ==
    CASE k = "assess_q1" -> <<"Question 1">>
      [] k = "assess_q2" -> <<"Question 2">>
      [] k = "assess_q3" -> <<"Question 3">>
      [] k = "assess_q4" -> <<"Question 4">>
      [] k = "assess_q5" -> <<"Question 5">>
      [] OTHER           -> <<>>

\* the mapping d with every absent field present and holding its default
Completed(d) ==
    LET Sub(name, keys) ==
            [j \in keys |->
                IF name \in DOMAIN d /\ j \in DOMAIN d[name]
                THEN d[name][j] ELSE DefaultOf(j)]
    IN  [k \in TopKeys \cup SubMappings |->
            CASE k = "resources"  -> Sub(k, ResourceKeys)
              [] k = "procedure"  -> Sub(k, ProcedureKeys)
              [] k = "evaluation" -> Sub(k, EvaluationKeys)
              [] OTHER -> IF k \in DOMAIN d THEN d[k] ELSE DefaultOf(k)]

\* the row of the main table with the given label (0: none)
RowLabelled(label) ==
    LET found == {i \in 1..Len(table_main) :
                     CellText(table_main[i][1]) = <<label>>}
    IN  IF found = {} THEN 0 ELSE CHOOSE i \in found : TRUE

ImageParagraphs ==
    LET i == RowLabelled("B. Establishing Lesson Purpose")
    IN  IF i = 0 THEN <<>> ELSE table_main[i][2].paragraphs

\* a paragraph of pars holds the text, in one plain run, and nothing else
HasParagraph(pars, text) ==
    \E j \in 1..Len(pars) : pars[j] = <<Run(<<text>>)>>

\* a run of a paragraph of pars holds a picture
HasPicture(pars) ==
    \E j \in 1..Len(pars) : \E h \in 1..Len(pars[j]) : pars[j][h].picture

\* C5: image embedding never aborts the assembly: whatever the image
\* acquisition gave, create_docx goes on past the image step and returns the
\* document, and the image cell holds the picture when the insertion
\* succeeded, "[No Image Available]" when no bytes were obtained and
\* "[Image Error]" when bytes were obtained but could not be inserted.
C5_ImageNeverAborts ==
    /\ pc # "docx_raised"
    /\ pc = "docx_done" => file_stream.type = "BytesIO"
    /\ pc \in {"docx_rest", "docx_done"} =>
          LET pars == ImageParagraphs
          IN  CASE img_data.type = "NoneType" ->
                      /\ HasParagraph(pars, "[No Image Available]")
                      /\ ~HasPicture(pars)
                      /\ ~HasParagraph(pars, "[Image Error]")
                [] img_data.val = <<"image">> ->
                      /\ HasPicture(pars)
                      /\ ~HasParagraph(pars, "[No Image Available]")
                      /\ ~HasParagraph(pars, "[Image Error]")
                [] OTHER ->
                      /\ HasParagraph(pars, "[Image Error]")
                      /\ ~HasPicture(pars)
                      /\ ~HasParagraph(pars, "[No Image Available]")

\* no image was uploaded, the image service failed, the document was
\* returned with the placeholder in it
C5_Witness ==
    /\ pc = "docx_done"
    /\ uploaded_image.type = "NoneType"
    /\ fetch_calls = 1
    /\ img_data.type = "NoneType"
    /\ HasParagraph(ImageParagraphs, "[No Image Available]")
    /\ file_stream.type = "BytesIO"

RECURSIVE SplitLines(_)
\* s.split("\n")
SplitLines(s) ==
    IF \A i \in 1..Len(s) : s[i] # "\n" THEN <<s>>
    ELSE LET k == CHOOSE i \in 1..Len(s) :
                     s[i] = "\n" /\ \A j \in 1..(i - 1) : s[j] # "\n"
         IN  <<SubSeq(s, 1, k - 1)>> \o SplitLines(SubSeq(s, k + 1, Len(s)))

\* C9: whatever the five questions are (present or absent, with or without
\* markers), the content cell of the "A. Assessment" row shows all five, in
\* order, each on its own line and each starting with its ordinal and a
\* period.
C9_AllQuestionsRendered ==
    pc = "docx_done" =>
        LET lines == SplitLines(
                CellText(table_main[RowLabelled("A. Assessment")][2]))
        IN  /\ Len(lines) = 5
            /\ \A n \in 1..5 : StartsWith(lines[n], <<ToString(n), ".">>)


-----------------------------------------------------------------------------
(* Claims about main and generate_lesson_content (Spec) *)

\* the response could be parsed as JSON (after the cleaning the code does)
Parsed ==
    /\ response.type = "text"
    /\ json_loads(clean_markdown(response.text)).ok

\* C6: only a content-generation failure is fatal to a request: a request
\* whose generation call was made ends without a document only when the
\* call raised or its output could not be parsed as JSON; whenever the output
\* parsed into a mapping, one with few or no keys included, create_docx ran
\* and the document is offered for download.
C6_OnlyGenerationFailureFatal ==
    pc = "main_end" /\ gen_calls = 1 =>
        (ui.download.type = "BytesIO" <=> Parsed)

\* text is one document inside a markdown code fence, the opening fence
\* with or without the word json
FencedDocument(text, name) ==
    /\ Len(text) >= 3
    /\ text[1] = Fence /\ text[Len(text)] = Fence
    /\ LET inner == SubSeq(text, 2, Len(text) - 1)
           body == IF inner[1] = "json" THEN Tail(inner) ELSE inner
       IN  SelectSeq(body, LAMBDA c : c \notin Whitespace) = <<name>>

\* C8: when the service returns valid JSON inside a markdown code fence,
\* opened by the fence with "json" or by the bare fence,
\* generate_lesson_content strips the fence and returns the parsed mapping.
C8_FenceStripped ==
    pc = "branch" /\ response.type = "text" =>
        \A name \in DOMAIN JsonDocuments :
            FencedDocument(response.text, name) =>
                /\ ai_data.type = "dict"
                /\ ai_data.val = JsonDocuments[name]

\* C10 as amended: in a run, fetch_ai_image is called at most once, never
\* when the user supplied an image, and only after content generation gave
\* content; the content-generation service is called exactly once when the
\* form was submitted with an API key available, and not at all otherwise;
\* no call is repeated.
C10_CallsOnce ==
    /\ fetch_calls <= 1
    /\ gen_calls <= 1
    /\ fetch_calls = 1 =>
          /\ uploaded_file.type = "NoneType"
          /\ gen_calls = 1
          /\ Truthy(ai_data)
    /\ pc = "main_end" =>
          gen_calls = IF submit_btn /\ ApiKey # <<>> THEN 1 ELSE 0

\* C10 as stated: ... the content-generation service is called exactly once
\* per submitted request ...
C10_Original ==
    /\ fetch_calls <= 1
    /\ gen_calls <= 1
    /\ fetch_calls = 1 =>
          /\ uploaded_file.type = "NoneType"
          /\ gen_calls = 1
          /\ Truthy(ai_data)
    /\ pc = "main_end" /\ submit_btn => gen_calls = 1

\* a request without an uploaded image ran to its end: one call of each
\* service, the document offered
C10_Witness ==
    /\ pc = "main_end"
    /\ submit_btn
    /\ gen_calls = 1
    /\ fetch_calls = 1
    /\ ui.download.type = "BytesIO"

=============================================================================
